---- MODULE Spec2Model ----
(***************************************************************************)
(* Model of the recurring crypto buy lambda                                *)
(*   src/recurring_buy_crypto.py   sizing (plan_order_to_cap) and handler  *)
(*   src/shared/gemini_client.py   GeminiClient (nonce, private requests)  *)
(*                                                                         *)
(* Units.  Python's Decimal values are modelled as exact integers:         *)
(*   money        cents (0.01 of the quote currency)                       *)
(*   raw money    mills (1/MillsPerCent of a cent) where the code receives *)
(*                a Decimal it has not yet quantized to cents              *)
(*   price        cents per unit of crypto                                 *)
(*   quantity     ticks, one tick = 10^-tick_size units of crypto          *)
(*   fee rate     basis points (maker_bps / 10000, line 231)               *)
(*   slippage     thousandths (0.999 -> 999)                               *)
(* Products and quotients are computed exactly (floor/ceiling as the code  *)
(* rounds them); MulDivFloor evaluates floor(a*b/m) digit by digit so that *)
(* the intermediate values stay inside TLC's 32-bit integers.              *)
(***************************************************************************)
EXTENDS Integers, Sequences, FiniteSets, TLC

VARIABLES sz, h, cl, now

vars == <<sz, h, cl, now>>

-----------------------------------------------------------------------------
(* Exact decimal arithmetic *)

RECURSIVE Pow10(_)
Pow10(n) == IF n = 0 THEN 1 ELSE 10 * Pow10(n - 1)

Min(a, b) == IF a <= b THEN a ELSE b

(* <<quotient, remainder>> of a*b divided by m, by Horner's rule on the    *)
(* decimal digits of b: a*b = 10*(a*(b \div 10)) + a*(b % 10).  The result  *)
(* for the leading digits is bound once (r) and extended by one digit.     *)
RECURSIVE MulDivMod(_, _, _)
MulDivMod(a, b, m) ==
    IF b = 0 THEN <<0, 0>>
    ELSE CHOOSE qr \in { <<10 * r[1] + ((10 * r[2] + a * (b % 10)) \div m),
                           (10 * r[2] + a * (b % 10)) % m>> :
                         r \in {MulDivMod(a, b \div 10, m)} } : TRUE

MulDivFloor(a, b, m) == MulDivMod(a, b, m)[1]

(* Decimal.quantize(Decimal("0.01"), ROUND_DOWN) of a raw amount in mills; *)
(* ROUND_DOWN rounds towards zero                                          *)
MillsPerCent == 10

quantize_cents_down(mills) ==
    IF mills >= 0 THEN mills \div MillsPerCent ELSE -((-mills) \div MillsPerCent)

-----------------------------------------------------------------------------
(* src/recurring_buy_crypto.py: sizing helpers *)

(* _quant_step: Decimal("1").scaleb(-tick_size); ticks per unit of crypto *)
quant_step(tick_size) == Pow10(tick_size)

execution_price_mut_round_up(ask, slippage_factor) ==
    LET qr == MulDivMod(slippage_factor, ask, 1000)
    IN  qr[1] + (IF qr[2] = 0 THEN 0 ELSE 1)

(* (ask * slippage_factor).quantize(0.01, ROUND_DOWN) *)
execution_price_of(ask, slippage_factor) == MulDivFloor(slippage_factor, ask, 1000)

(* (execution_price * crypto_amount).quantize(0.01, ROUND_DOWN) *)
compute_cost_floor(execution_price, crypto_amount, tick_size) ==
    MulDivFloor(crypto_amount, execution_price, quant_step(tick_size))

(* (cost * fee_rate).quantize(0.01, ROUND_DOWN) *)
compute_fee_floor(cost, fee_rate) == (cost * fee_rate) \div 10000

(* (cost * fee_rate).quantize(0.01, ROUND_UP) *)
compute_fee_ceil(cost, fee_rate) == (cost * fee_rate + 9999) \div 10000

required_funds_mut_no_fee(execution_price, crypto_amount, tick_size, fee_rate) ==
    compute_cost_floor(execution_price, crypto_amount, tick_size)

required_funds_mut_floor_fee(execution_price, crypto_amount, tick_size, fee_rate) ==
    LET cost == compute_cost_floor(execution_price, crypto_amount, tick_size)
    IN  cost + compute_fee_floor(cost, fee_rate)

(* cost floored to cents + fee rounded up to cents; the final quantize of  *)
(* line 107 acts on a sum of two cent amounts and leaves it unchanged.     *)
required_funds_conservative(execution_price, crypto_amount, tick_size, fee_rate) ==
    LET cost == compute_cost_floor(execution_price, crypto_amount, tick_size)
        fee  == compute_fee_ceil(cost, fee_rate)
    IN  cost + fee

lower_bound_mut_round_up(gross_cap, execution_price, tick_size, fee_rate) ==
    MulDivFloor(gross_cap * 10000, quant_step(tick_size), execution_price)
        \div (10000 + fee_rate) + 1

(* (gross_cap / denom).quantize(step, ROUND_DOWN) with                      *)
(* denom = execution_price * (1 + fee_rate): in ticks,                      *)
(* floor(gross_cap * 10^tick * 10000 / (execution_price * (10000 + bps))),  *)
(* evaluated as two nested floor divisions.                                 *)
lower_bound_quantity(gross_cap, execution_price, tick_size, fee_rate) ==
    MulDivFloor(gross_cap * 10000, quant_step(tick_size), execution_price)
        \div (10000 + fee_rate)

(* What gross_cap / denom leaves below one tick: 0 when the quotient lies   *)
(* on the tick grid, 1 (some positive part of a tick) when it does not.    *)
lower_bound_rest(gross_cap, execution_price, tick_size, fee_rate) ==
    LET qr == MulDivMod(gross_cap * 10000, quant_step(tick_size), execution_price)
    IN  IF qr[2] = 0 /\ qr[1] % (10000 + fee_rate) = 0 THEN 0 ELSE 1

quantize_step_mut_keep(rest) == rest

(* line 140: .quantize(step, rounding=ROUND_DOWN) drops what lies below    *)
(* one tick                                                                *)
quantize_step_down(rest) == 0

-----------------------------------------------------------------------------
(* src/shared/gemini_client.py: GeminiClient *)

(* A request as it leaves the client.  Private ones carry the nonce and   *)
(* the X-GEMINI-TIMESTAMP header int(time.time()); the public ticker       *)
(* request carries neither (0).  ok is the HTTP outcome (2xx or not).      *)
Request(kind, endpoint, nonce, timestamp, ok) ==
    [kind |-> kind, endpoint |-> endpoint, nonce |-> nonce,
     timestamp |-> timestamp, ok |-> ok]

(* __init__: nonce_counter = int(time.time() * 1000); the clock `now` is   *)
(* kept in milliseconds.  The keys are stored as given, without a check.   *)
(* seed remembers the construction-time value and log the requests sent.   *)
GeminiClient(public_key, private_key, t) ==
    [public_key |-> public_key, private_key |-> private_key,
     nonce_counter |-> t, seed |-> t, log |-> <<>>]

get_nonce_mut_clock(c) == [c EXCEPT !.nonce_counter = now]

(* get_nonce: self.nonce_counter += 1; return it *)
get_nonce(c) == [c EXCEPT !.nonce_counter = @ + 1]

make_private_request_mut_retry(c, endpoint, ok) ==
    LET c1 == get_nonce(c)
        c2 == [c1 EXCEPT !.log = Append(@, Request("private", endpoint, c1.nonce_counter,
                                                   now \div 1000, ok))]
        c3 == get_nonce(c2)
    IN  IF ok THEN c2
        ELSE [c3 EXCEPT !.log = Append(@, Request("private", endpoint, c3.nonce_counter,
                                                  now \div 1000, ok))]

(* make_private_post_request / make_private_get_request: one nonce, one    *)
(* HTTP request; raise_for_status raises when the response is not 2xx      *)
make_private_request(c, endpoint, ok) ==
    LET c1 == get_nonce(c)
    IN  [c1 EXCEPT !.log = Append(@, Request("private", endpoint, c1.nonce_counter,
                                             now \div 1000, ok))]

(* lines 33-34: payload["request"] = endpoint; payload["nonce"] = nonce,   *)
(* written into the caller's dict; c is the client after the call          *)
signed_payload(c, endpoint, payload) ==
    [payload EXCEPT !.request = endpoint, !.nonce = c.nonce_counter]

get_ticker_mut_nonce(c, symbol, ok) ==
    [get_nonce(c) EXCEPT !.log = Append(@, Request("public", symbol, 0, 0, ok))]

(* The exchange's HTTP response to a private request: 2xx, or an error     *)
(* status whose body names the exchange's reason code.                     *)
Response(ok) ==
    IF ok THEN [status_code |-> "200", reason |-> "", text |-> "{...}"]
    ELSE [status_code |-> "400", reason |-> "InsufficientFunds",
          text |-> "{result:error,reason:InsufficientFunds,message:...}"]

(* A Python exception or value: its type, the attributes it carries ("" for *)
(* an attribute it does not have) and str() of it as a sequence of pieces.  *)
Failure(type, status_code, text, message) ==
    [type |-> type, status_code |-> status_code, text |-> text, message |-> message]

NoFailure == Failure("", "", "", <<>>)

(* line 55: response.raise_for_status() raises requests HTTPError, which   *)
(* carries the response                                                    *)
raise_for_status(response) ==
    Failure("HTTPError", response.status_code, response.text,
            <<response.status_code, " Client Error for url">>)

(* lines 56-59: the HTTPError is caught and Exception(error_message) is    *)
(* raised in its place, error_message = "HTTP Error: {e}, Response:        *)
(* {response.text}"; the new exception carries the string only             *)
private_request_error(response) ==
    LET e == raise_for_status(response)
    IN  Failure("Exception", "", "",
                <<"HTTP Error: ">> \o e.message \o <<", Response: ", response.text>>)

(* get_ticker: requests.get on the public endpoint, no nonce *)
get_ticker(c, symbol, ok) ==
    [c EXCEPT !.log = Append(@, Request("public", symbol, 0, 0, ok))]

(* the nonces the client has sent, in the order sent *)
RECURSIVE NoncesOf(_)
NoncesOf(log) ==
    IF log = <<>> THEN <<>>
    ELSE IF Head(log).kind = "private"
         THEN <<Head(log).nonce>> \o NoncesOf(Tail(log))
         ELSE NoncesOf(Tail(log))

-----------------------------------------------------------------------------
(* src/recurring_buy_crypto.py: plan_order_to_cap as a step machine.       *)
(* sz.pc: idle -> call -> quote -> bump* -> final -> ret                    *)

NoPayload ==
    [symbol |-> "", amount |-> 0, price |-> 0, side |-> "", type |-> "",
     options |-> "", request |-> "", nonce |-> 0]

(* The dict plan_order_to_cap returns; kind is "skipped" for the dicts     *)
(* with "skipped": True, "plan" for the one with an order_payload, and     *)
(* "raise" when the call ended by an exception.  crypto_amount is in whole *)
(* ticks and crypto_rest is the part of the Decimal below one tick.        *)
NoPlan ==
    [kind |-> "none", reason |-> "", asset |-> "", gross_cap |-> 0,
     execution_price |-> 0, crypto_amount |-> 0, crypto_rest |-> 0,
     order_cost |-> 0, order_fee_floor |-> 0, total_cost_floor |-> 0, fee_conservative |-> 0,
     required_conservative |-> 0, order_payload |-> NoPayload]

Skipped(reason, gross_cap, execution_price, crypto_amount) ==
    [NoPlan EXCEPT !.kind = "skipped", !.reason = reason, !.gross_cap = gross_cap,
                   !.execution_price = execution_price,
                   !.crypto_amount = crypto_amount]

SizingIdle ==
    [pc |-> "idle", asset |-> "", symbol |-> "", gross_cap_in |-> 0, gross_cap |-> 0,
     tick_size |-> 0, min_quantity |-> 0, slippage_factor |-> 0, fee_rate |-> 0,
     ask |-> 0, execution_price |-> 0, crypto_amount |-> 0, crypto_rest |-> 0,
     ret |-> NoPlan]

(* the call plan_order_to_cap(gemini, asset, gross_cap, symbol, tick_size, *)
(* min_quantity, slippage_factor, fee_rate)                                *)
SizingCall(asset, gross_cap, symbol, tick_size, min_quantity, slippage_factor, fee_rate) ==
    [SizingIdle EXCEPT !.pc = "call", !.asset = asset, !.symbol = symbol,
                       !.gross_cap_in = gross_cap, !.tick_size = tick_size,
                       !.min_quantity = min_quantity,
                       !.slippage_factor = slippage_factor, !.fee_rate = fee_rate]

cap_not_positive_mut_negative(gross_cap) == gross_cap < 0

(* line 128: gross_cap <= 0 *)
cap_not_positive(gross_cap) == gross_cap <= 0

(* lines 126-129: quantize the cap down to cents; skip when it is <= 0 *)
PlanStart ==
    /\ sz.pc = "call"
    /\ LET gross_cap == quantize_cents_down(sz.gross_cap_in)
       IN  sz' = IF cap_not_positive(gross_cap)
                 THEN [sz EXCEPT !.pc = "ret", !.gross_cap = gross_cap,
                                 !.ret = Skipped("gross_cap <= 0", gross_cap, 0, 0)]
                 ELSE [sz EXCEPT !.pc = "quote", !.gross_cap = gross_cap]
    /\ UNCHANGED <<h, cl, now>>

(* Asks the public ticker can answer with, in cents, per symbol.  "tstusd" *)
(* is the pair of the sizing specification, where the whole small range    *)
(* is explored; the two real pairs answer with asks of realistic size.     *)
MaxAsk == 24

TickerAsks(symbol) ==
    CASE symbol \in {"btcgusd", "BTCGUSD"} -> {5000000, 9712345, 190000000}
      [] symbol \in {"ethgusd", "ETHGUSD"} -> {300000, 1234567, 4000000}
      [] OTHER              -> 0..MaxAsk

(* denom = execution_price * (1 + fee_rate) <= 0, by the signs of the factors *)
bad_denom(execution_price, fee_rate) ==
    \/ execution_price = 0
    \/ 10000 + fee_rate = 0
    \/ (execution_price < 0) /= (10000 + fee_rate < 0)

below_min_quantity_mut_never(crypto_amount, min_quantity) == FALSE

(* line 143: crypto_amount < min_quantity *)
below_min_quantity(crypto_amount, min_quantity) == crypto_amount < min_quantity

ticker_symbol_mut_btc(symbol) == IF symbol = "tstusd" THEN symbol ELSE "btcgusd"

(* line 79: gemini.get_ticker(symbol), the symbol plan_order_to_cap was    *)
(* called with                                                             *)
ticker_symbol(symbol) == symbol

(* lines 131-151: fetch the ask, derive the execution price, start from    *)
(* the lower-bound quantity, skip below the minimum                        *)
PlanQuote ==
    /\ sz.pc = "quote"
    /\ \E ask \in TickerAsks(ticker_symbol(sz.symbol)) :
         LET execution_price == execution_price_of(ask, sz.slippage_factor)
             crypto_amount == lower_bound_quantity(sz.gross_cap, execution_price,
                                                   sz.tick_size, sz.fee_rate)
             crypto_rest ==
                 IF bad_denom(execution_price, sz.fee_rate) THEN 0
                 ELSE quantize_step_down(
                        lower_bound_rest(sz.gross_cap, execution_price,
                                         sz.tick_size, sz.fee_rate))
         IN  sz' = IF bad_denom(execution_price, sz.fee_rate)
                   THEN [sz EXCEPT !.pc = "ret", !.ask = ask, !.execution_price = execution_price,
                                   !.ret = Skipped("bad denom", 0, execution_price, 0)]
                   ELSE IF below_min_quantity(crypto_amount, sz.min_quantity)
                   THEN [sz EXCEPT !.pc = "ret", !.ask = ask, !.execution_price = execution_price,
                                   !.crypto_amount = crypto_amount,
                                   !.crypto_rest = crypto_rest,
                                   !.ret = [Skipped("below min quantity", sz.gross_cap,
                                                    execution_price, crypto_amount)
                                              EXCEPT !.crypto_rest = crypto_rest]]
                   ELSE [sz EXCEPT !.pc = "bump", !.ask = ask, !.execution_price = execution_price,
                                   !.crypto_amount = crypto_amount,
                                   !.crypto_rest = crypto_rest]
    /\ cl' = get_ticker(cl, ticker_symbol(sz.symbol), TRUE)
    /\ UNCHANGED <<h, now>>

(* lines 80 / gemini_client 107-108: the ticker request fails (transport   *)
(* error or raise_for_status); the exception leaves plan_order_to_cap      *)
PlanQuoteRaises ==
    /\ sz.pc = "quote"
    /\ sz' = [sz EXCEPT !.pc = "ret", !.ret = [NoPlan EXCEPT !.kind = "raise"]]
    /\ cl' = get_ticker(cl, sz.symbol, FALSE)
    /\ UNCHANGED <<h, now>>

exceeds_cap_mut_at_cap(req, gross_cap) == req >= gross_cap

(* line 157: req > gross_cap ends the loop *)
exceeds_cap(req, gross_cap) == req > gross_cap

bump_candidate_mut_stay(crypto_amount) == crypto_amount

(* line 155: cand = (crypto_amount + step).quantize(step, ROUND_DOWN), in  *)
(* ticks                                                                   *)
bump_candidate(crypto_amount) == crypto_amount + 1

(* lines 154-159: one iteration of the bump loop; cand = crypto_amount +    *)
(* step adds one whole tick and leaves crypto_rest as it is                *)
PlanBump ==
    /\ sz.pc = "bump"
    /\ LET cand == bump_candidate(sz.crypto_amount)
           req  == required_funds_conservative(sz.execution_price, cand,
                                               sz.tick_size, sz.fee_rate)
       IN  sz' = IF exceeds_cap(req, sz.gross_cap)
                 THEN [sz EXCEPT !.pc = "final"]
                 ELSE [sz EXCEPT !.crypto_amount = cand]
    /\ UNCHANGED <<h, cl, now>>

(* lines 178-185 *)
OrderPayload(symbol, crypto_amount, execution_price) ==
    [NoPayload EXCEPT !.symbol = symbol, !.amount = crypto_amount,
                      !.price = execution_price, !.side = "buy",
                      !.type = "exchange limit", !.options = "maker-or-cancel"]

(* lines 161-198: reporting fields, the defensive check, the plan *)
PlanFinal ==
    /\ sz.pc = "final"
    /\ LET order_cost == compute_cost_floor(sz.execution_price, sz.crypto_amount,
                                            sz.tick_size)
           order_fee_floor == compute_fee_floor(order_cost, sz.fee_rate)
           required_conservative ==
               required_funds_conservative(sz.execution_price, sz.crypto_amount,
                                           sz.tick_size, sz.fee_rate)
       IN  sz' = [sz EXCEPT
                   !.pc = "ret",
                   !.ret =
                     IF required_conservative > sz.gross_cap
                     THEN [Skipped("cannot fit within cap under conservative hold",
                                   sz.gross_cap, 0, 0)
                             EXCEPT !.required_conservative = required_conservative]
                     ELSE [kind |-> "plan", reason |-> "", asset |-> sz.asset,
                           gross_cap |-> sz.gross_cap,
                           execution_price |-> sz.execution_price,
                           crypto_amount |-> sz.crypto_amount,
                           crypto_rest |-> sz.crypto_rest,
                           order_cost |-> order_cost,
                           order_fee_floor |-> order_fee_floor,
                           total_cost_floor |-> order_cost + order_fee_floor,
                           fee_conservative |-> compute_fee_ceil(order_cost, sz.fee_rate),
                           required_conservative |-> required_conservative,
                           order_payload |-> OrderPayload(sz.symbol, sz.crypto_amount,
                                                          sz.execution_price)]]
    /\ UNCHANGED <<h, cl, now>>

Sizing == PlanStart \/ PlanQuote \/ PlanQuoteRaises \/ PlanBump \/ PlanFinal

-----------------------------------------------------------------------------
(* src/recurring_buy_crypto.py: configuration and the handler's locals *)

TOTAL_DEPOSIT == 170

(* line 15: (total_deposit / 2).quantize(0.01, ROUND_DOWN); cents in, cents out *)
max_buy_of(total_deposit) == total_deposit \div 2

MAX_BUY == max_buy_of(TOTAL_DEPOSIT * 100)

BTC_PERCENTAGE == 66

btc_target_mut_round_down(max_buy, percentage) == (max_buy * percentage) \div 100

(* line 21: (max_buy * (percentage / 100)).quantize(0.01, ROUND_HALF_UP);   *)
(* percentage / 100 is exact for a whole percentage                        *)
btc_target_of(max_buy, percentage) == (max_buy * percentage + 50) \div 100

(* line 22: (max_buy - btc_target).quantize(0.01, ROUND_HALF_UP), a        *)
(* difference of two cent amounts, which the quantize leaves unchanged     *)
eth_target_of(max_buy, btc_target) == max_buy - btc_target

BTC_TARGET == btc_target_of(MAX_BUY, BTC_PERCENTAGE)

ETH_TARGET == eth_target_of(MAX_BUY, BTC_TARGET)

(* min_quantity in ticks: 0.00001 = 1000e-8, 0.001 = 1000e-6 *)
ASSET_DEFAULTS ==
    [BTC |-> [symbol |-> "btcgusd", tick_size |-> 8, min_quantity |-> 1000,
              slippage_factor |-> 999],
     ETH |-> [symbol |-> "ethgusd", tick_size |-> 6, min_quantity |-> 1000,
              slippage_factor |-> 998]]

(* what place_planned_order returns: the skipped plan itself, or           *)
(* {"placed": True, plan, result}, or {"error": msg, plan}; error is msg   *)
Result(kind, plan) == [kind |-> kind, plan |-> plan, error |-> NoFailure]

(* lines 210-219: the "error" string place_planned_order reports for an    *)
(* exception e of gemini.place_order                                       *)
order_error_message(e) ==
    IF e.type = "HTTPError"
    THEN Failure("str", "", "",
                 e.message \o (IF e.text /= "" THEN <<" | response: ", e.text>> ELSE <<>>))
    ELSE Failure("str", "", "", e.message)

(* targets holds the module's BTC_TARGET and ETH_TARGET as the handler     *)
(* reads them                                                              *)
HandlerStart ==
    [pc |-> "start", targets |-> [btc |-> BTC_TARGET, eth |-> ETH_TARGET],
     maker_bps |-> 0, fee_rate |-> 0, gusd_before |-> 0,
     btc_plan |-> NoPlan, eth_plan |-> NoPlan, btc_required |-> 0,
     eth_required |-> 0, remaining_budget |-> 0, eth_cap |-> 0,
     total_required |-> 0,
     results |-> [BTC |-> Result("none", NoPlan), ETH |-> Result("none", NoPlan)],
     orders |-> <<>>, statusCode |-> 0, body |-> "none", body_fields |-> <<>>,
     at |-> ""]

HandlerIdle == [HandlerStart EXCEPT !.pc = "idle"]

-----------------------------------------------------------------------------
(* The sizing specification: plan_order_to_cap called once on every input  *)
(* of a bounded range.                                                     *)

MaxCapCents == 8
MaxMinQuantity == 2

CapInputs ==
    {c * MillsPerCent + r : c \in 0..MaxCapCents, r \in {0, MillsPerCent - 1}}
      \cup {-MillsPerCent}
TickSizes == {0, 1, 2}
SlippageFactors == {999, 1000}
FeeRates == {0, 20, 2500}

InitSizing ==
    /\ \E gross_cap \in CapInputs, tick_size \in TickSizes,
          min_quantity \in 0..MaxMinQuantity, slippage_factor \in SlippageFactors,
          fee_rate \in FeeRates :
         sz = SizingCall("TST", gross_cap, "tstusd", tick_size, min_quantity,
                         slippage_factor, fee_rate)
    /\ h = HandlerIdle
    /\ now = 0
    /\ cl = GeminiClient("key", "secret", now)

SpecSizing == InitSizing /\ [][Sizing]_vars

(* plan_order_to_cap is straight-line code and one loop, run by a single   *)
(* thread: a step that can be taken is taken.                              *)
FairSizing == InitSizing /\ [][Sizing]_vars /\ WF_vars(Sizing)

(* The largest quantity worth looking at: from there on the floored cost   *)
(* alone is above the cap.                                                 *)
QuantityHorizon(gross_cap, execution_price, tick_size) ==
    MulDivFloor(gross_cap + 1, quant_step(tick_size), execution_price) + 1

(* floor-cost plus ceil-fee of a quantity, stated from the two roundings *)
FundsNeeded(execution_price, crypto_amount, tick_size, fee_rate) ==
    compute_cost_floor(execution_price, crypto_amount, tick_size)
      + compute_fee_ceil(compute_cost_floor(execution_price, crypto_amount, tick_size),
                         fee_rate)

Planned == sz.pc = "ret" /\ sz.ret.kind = "plan"

(* C1: every non-skipped plan of plan_order_to_cap needs, as floor-cost    *)
(* plus ceil-fee of its quantity at its price, no more than the cap        *)
(* (floored to cents), and reports that amount as required_conservative.   *)
C1_PlanWithinCap ==
    Planned =>
      /\ FundsNeeded(sz.ret.execution_price, sz.ret.crypto_amount, sz.tick_size,
                     sz.fee_rate) <= sz.ret.gross_cap
      /\ sz.ret.required_conservative
           = FundsNeeded(sz.ret.execution_price, sz.ret.crypto_amount, sz.tick_size,
                         sz.fee_rate)
      /\ sz.ret.gross_cap * MillsPerCent <= sz.gross_cap_in

(* a plan that was bumped above the lower bound, pays a fee and uses the   *)
(* whole cap                                                               *)
C1_Witness ==
    /\ Planned
    /\ sz.ret.fee_conservative > 1
    /\ sz.ret.order_fee_floor < sz.ret.fee_conservative
    /\ sz.ret.required_conservative = sz.ret.gross_cap
    /\ sz.ret.crypto_amount
         > lower_bound_quantity(sz.gross_cap, sz.execution_price, sz.tick_size,
                                sz.fee_rate)

(* C2: maximality.  No quantity above the planned one fits the cap: every  *)
(* larger number of ticks needs more than the cap as floor-cost plus       *)
(* ceil-fee, and the need never decreases from one tick to the next.       *)
C2_Maximal ==
    Planned =>
      \A q \in (sz.ret.crypto_amount + 1) ..
               QuantityHorizon(sz.gross_cap, sz.execution_price, sz.tick_size) :
        /\ FundsNeeded(sz.execution_price, q, sz.tick_size, sz.fee_rate) > sz.gross_cap
        /\ FundsNeeded(sz.execution_price, q, sz.tick_size, sz.fee_rate)
             >= FundsNeeded(sz.execution_price, q - 1, sz.tick_size, sz.fee_rate)

(* a plan whose loop accepted a candidate needing exactly the cap, with a  *)
(* larger quantity still inside the horizon                                *)
C2_Witness ==
    /\ Planned
    /\ sz.ret.required_conservative = sz.ret.gross_cap
    /\ sz.ret.crypto_amount
         > lower_bound_quantity(sz.gross_cap, sz.execution_price, sz.tick_size,
                                sz.fee_rate) + 1
    /\ sz.ret.crypto_amount + 2
         <= QuantityHorizon(sz.gross_cap, sz.execution_price, sz.tick_size)

(* C3: completeness as claimed.  Whenever the cap is positive, the price   *)
(* is positive and some quantity >= min_quantity fits the cap as           *)
(* floor-cost plus ceil-fee, plan_order_to_cap returns a plan, not a skip. *)
C3_Complete ==
    ( /\ sz.pc = "ret"
      /\ sz.ret.kind /= "raise"
      /\ sz.gross_cap > 0
      /\ sz.execution_price > 0
      /\ \E q \in sz.min_quantity ..
                  QuantityHorizon(sz.gross_cap, sz.execution_price, sz.tick_size) :
           FundsNeeded(sz.execution_price, q, sz.tick_size, sz.fee_rate) <= sz.gross_cap )
    => sz.ret.kind = "plan"

-----------------------------------------------------------------------------
(* The client specification: one GeminiClient, any sequence of its calls,  *)
(* each succeeding or raising, while the wall clock moves freely.          *)

MaxRequests == 3

(* wall-clock times, in milliseconds, one second apart *)
ClockTimes == {0, 1000}

ClientCall(endpoint) ==
    /\ Len(cl.log) < MaxRequests
    /\ \E ok \in BOOLEAN : cl' = make_private_request(cl, endpoint, ok)
    /\ UNCHANGED <<sz, h, now>>

(* get_balance, lines 98-102 *)
ClientGetBalance == ClientCall("/v1/balances")

(* place_order, lines 111-114 *)
ClientPlaceOrder == ClientCall("/v1/order/new")

(* get_staking_rates, lines 116-119 *)
ClientGetStakingRates == ClientCall("/v1/staking/rates")

(* stake_assets, lines 121-124 *)
ClientStakeAssets == ClientCall("/v1/staking/stake")

(* get_ticker, lines 104-109 *)
ClientGetTicker ==
    /\ Len(cl.log) < MaxRequests
    /\ \E ok \in BOOLEAN : cl' = get_ticker(cl, "btcgusd", ok)
    /\ UNCHANGED <<sz, h, now>>

(* time.time(): the wall clock jumps to any time, forwards or backwards *)
ClockMoves ==
    /\ \E t \in ClockTimes \ {now} : now' = t
    /\ UNCHANGED <<sz, h, cl>>

(* the credential pairs a caller may pass to the constructor *)
Credentials == {<<"key", "secret">>, <<"", "secret">>, <<"key", "">>}

InitClient ==
    /\ now \in ClockTimes
    /\ \E keys \in Credentials : cl = GeminiClient(keys[1], keys[2], now)
    /\ sz = SizingIdle
    /\ h = HandlerIdle

NextClient ==
    \/ ClientGetBalance
    \/ ClientPlaceOrder
    \/ ClientGetStakingRates
    \/ ClientStakeAssets
    \/ ClientGetTicker
    \/ ClockMoves

SpecClient == InitClient /\ [][NextClient]_vars

(* C4: the nonces one client has issued are strictly increasing, whatever  *)
(* the outcome of each request and whatever the clock did meanwhile.       *)
C4_NoncesIncrease ==
    LET nonces == NoncesOf(cl.log)
    IN  \A i, j \in 1..Len(nonces) : i < j => nonces[i] < nonces[j]

(* three private requests, one of them failed, the second sent after the   *)
(* clock fell back behind the first's timestamp and below the last nonce   *)
C4_Witness ==
    /\ Len(cl.log) = 3
    /\ \A i \in 1..3 : cl.log[i].kind = "private"
    /\ ~cl.log[1].ok
    /\ cl.log[2].timestamp < cl.log[1].timestamp
    /\ now < cl.log[1].nonce

-----------------------------------------------------------------------------
(* src/recurring_buy_crypto.py: lambda_handler.                            *)
(* h.pc: start -> fee -> balance -> sizing_btc -> sizing_eth -> place_btc  *)
(*       -> place_eth -> done; every return statement leads to done.       *)

(* return {"statusCode": status, "body": ...}; body names which return:    *)
(* "results" (319), "insufficient" (249), "safety_stop" (298),             *)
(* "exception" (324, the outer except); at is the step that returned      *)
Return_mut_raise(hh, status, body) == [hh EXCEPT !.pc = "raised", !.at = hh.pc]

Return(hh, status, body) ==
    [hh EXCEPT !.pc = "done", !.statusCode = status, !.body = body, !.at = hh.pc]

(* lines 224-225: get_api_keys (SSM) may raise; GeminiClient(...) is built *)
GetApiKeys ==
    /\ h.pc = "start"
    /\ \E ok \in BOOLEAN :
         IF ok
         THEN /\ h' = [h EXCEPT !.pc = "fee"]
              /\ cl' = GeminiClient("key", "secret", now)
         ELSE /\ h' = Return(h, 500, "exception")
              /\ cl' = cl
    /\ UNCHANGED <<sz, now>>

(* maker fee tiers, in basis points, the exchange may report *)
FeeTiers == {0, 10, 20}

(* GeminiClient.get_notional_volume: a private request *)
get_notional_volume(c, ok) == make_private_request(c, "/v1/notionalvolume", ok)

fallback_maker_bps_mut_free == CHOOSE bps \in FeeTiers : \A other \in FeeTiers : bps <= other

(* lines 237-238: maker_bps = 20, fee_rate = Decimal("0.0020") *)
fallback_maker_bps == 20

(* lines 227-238: the fee tier, or the 0.20% fallback when the lookup      *)
(* raises (the method is missing, or the request fails)                    *)
FetchFeeTier ==
    /\ h.pc = "fee"
    /\ \E outcome \in {"no_method", "raises", "ok"}, maker_bps \in FeeTiers :
         /\ cl' = IF outcome = "no_method" THEN cl
                  ELSE get_notional_volume(cl, outcome = "ok")
         /\ h' = IF outcome = "ok"
                 THEN [h EXCEPT !.pc = "balance", !.maker_bps = maker_bps,
                                !.fee_rate = maker_bps]
                 ELSE [h EXCEPT !.pc = "balance", !.maker_bps = fallback_maker_bps,
                                !.fee_rate = fallback_maker_bps]
    /\ UNCHANGED <<sz, now>>

(* "available" of the GUSD balance as the exchange reports it, in mills;   *)
(* 0 also stands for an account without a GUSD entry (line 72)             *)
GusdBalances ==
    {0, BTC_TARGET * MillsPerCent, MAX_BUY * MillsPerCent - 1, MAX_BUY * MillsPerCent,
     MAX_BUY * MillsPerCent + 1, 2 * MAX_BUY * MillsPerCent}

insufficient_gusd_mut_target(gusd_before) == gusd_before < BTC_TARGET

insufficient_gusd_mut_never(gusd_before) == FALSE

(* line 245: gusd_before < MAX_BUY *)
insufficient_gusd(gusd_before) == gusd_before < MAX_BUY

PlanCall(asset, gross_cap, fee_rate) ==
    SizingCall(asset, gross_cap * MillsPerCent, ASSET_DEFAULTS[asset].symbol,
               ASSET_DEFAULTS[asset].tick_size, ASSET_DEFAULTS[asset].min_quantity,
               ASSET_DEFAULTS[asset].slippage_factor, fee_rate)

(* lines 240-258: read the balance, guard on MAX_BUY, call the BTC sizing *)
ReadBalance ==
    /\ h.pc = "balance"
    /\ \E ok \in BOOLEAN, available \in GusdBalances :
         LET gusd_before == quantize_cents_down(available)
         IN  /\ cl' = make_private_request(cl, "/v1/balances", ok)
             /\ IF ~ok
                THEN h' = Return(h, 500, "exception") /\ sz' = sz
                ELSE IF insufficient_gusd(gusd_before)
                THEN /\ h' = Return([h EXCEPT !.gusd_before = gusd_before], 400,
                                    "insufficient")
                     /\ sz' = sz
                ELSE /\ h' = [h EXCEPT !.pc = "sizing_btc", !.gusd_before = gusd_before]
                     /\ sz' = PlanCall("BTC", h.targets.btc, h.fee_rate)
    /\ UNCHANGED now

(* lines 261-264, 289: 0 for a skipped plan, else its required_conservative *)
required_of(plan) == IF plan.kind = "skipped" THEN 0 ELSE plan.required_conservative

(* lines 266-268 *)
remaining_budget_of(btc_required) ==
    IF MAX_BUY - btc_required < 0 THEN 0 ELSE MAX_BUY - btc_required

eth_cap_mut_remaining(eth_target, remaining_budget) == remaining_budget

(* line 271: min(ETH_TARGET, remaining_budget) *)
eth_cap_of(eth_target, remaining_budget) == Min(eth_target, remaining_budget)

no_remaining_budget_mut_never(eth_cap) == FALSE

(* line 273: eth_cap <= 0 *)
no_remaining_budget(eth_cap) == eth_cap <= 0

FinalSanity_mut_unchecked(hh) == [hh EXCEPT !.pc = "place_btc"]

(* lines 291-298: the final sanity check, then on to placing *)
FinalSanity(hh) ==
    LET total_required == hh.btc_required + hh.eth_required
    IN  IF total_required > MAX_BUY
        THEN Return([hh EXCEPT !.total_required = total_required], 500, "safety_stop")
        ELSE [hh EXCEPT !.total_required = total_required, !.pc = "place_btc"]

(* lines 259-288: the BTC plan is back; derive the ETH cap and call the    *)
(* ETH sizing, or skip ETH when nothing remains                            *)
AfterPlanBtc ==
    /\ h.pc = "sizing_btc"
    /\ sz.pc = "ret"
    /\ IF sz.ret.kind = "raise"
       THEN h' = Return(h, 500, "exception") /\ sz' = SizingIdle
       ELSE LET btc_required == required_of(sz.ret)
                remaining_budget == remaining_budget_of(btc_required)
                eth_cap == eth_cap_of(h.targets.eth, remaining_budget)
                h1 == [h EXCEPT !.btc_plan = sz.ret, !.btc_required = btc_required,
                                !.remaining_budget = remaining_budget,
                                !.eth_cap = eth_cap]
            IN  IF no_remaining_budget(eth_cap)
                THEN /\ h' = FinalSanity(
                               [h1 EXCEPT !.eth_plan =
                                  Skipped("No remaining budget after BTC conservative hold",
                                          0, 0, 0),
                                          !.eth_required = 0])
                     /\ sz' = SizingIdle
                ELSE /\ h' = [h1 EXCEPT !.pc = "sizing_eth"]
                     /\ sz' = PlanCall("ETH", eth_cap, h.fee_rate)
    /\ UNCHANGED <<cl, now>>

(* lines 282-298: the ETH plan is back; final sanity check *)
AfterPlanEth ==
    /\ h.pc = "sizing_eth"
    /\ sz.pc = "ret"
    /\ h' = IF sz.ret.kind = "raise"
            THEN Return(h, 500, "exception")
            ELSE FinalSanity([h EXCEPT !.eth_plan = sz.ret,
                                       !.eth_required = required_of(sz.ret)])
    /\ sz' = SizingIdle
    /\ UNCHANGED <<cl, now>>

place_escapes_mut_uncaught(plan, ok) == plan.kind = "plan" /\ ~ok

(* lines 207-219: does an exception of gemini.place_order leave            *)
(* place_planned_order?  Never: except Exception catches what the client   *)
(* raises.                                                                 *)
place_escapes(plan, ok) == FALSE

(* lines 201-219: place_planned_order on one asset's plan.  ok is the      *)
(* outcome of the order request, sent only for a plan with a payload.      *)
PlacePlannedOrder(asset, plan, next) ==
    \E ok \in BOOLEAN :
      IF plan.kind = "skipped"
      THEN /\ h' = [h EXCEPT !.pc = next, !.results[asset] = Result("skipped", plan)]
           /\ cl' = cl
      ELSE IF plan.kind /= "plan"
      THEN /\ h' = [h EXCEPT !.pc = next, !.results[asset] = Result("error", plan)]
           /\ cl' = cl
      ELSE LET c1 == make_private_request(cl, "/v1/order/new", ok)
               sent == signed_payload(c1, "/v1/order/new", plan.order_payload)
               plan1 == [plan EXCEPT !.order_payload = sent]
               h1 == [h EXCEPT !.orders = Append(@, [asset |-> asset, payload |-> sent,
                                                     ok |-> ok]),
                               !.btc_plan = IF asset = "BTC" THEN plan1 ELSE @,
                               !.eth_plan = IF asset = "ETH" THEN plan1 ELSE @]
           IN  /\ cl' = c1
               /\ h' = IF place_escapes(plan, ok)
                       THEN Return(h1, 500, "exception")
                       ELSE [h1 EXCEPT !.pc = next,
                                       !.results[asset] =
                                          IF ok THEN Result("placed", plan1)
                                          ELSE [Result("error", plan1) EXCEPT !.error =
                                                  order_error_message(
                                                    private_request_error(Response(ok)))]]

(* line 302 *)
PlaceBtc ==
    /\ h.pc = "place_btc"
    /\ PlacePlannedOrder("BTC", h.btc_plan, "place_eth")
    /\ UNCHANGED <<sz, now>>

(* lines 303-319: the ETH order, then the 200 body with both results *)
PlaceEth ==
    /\ h.pc = "place_eth"
    /\ PlacePlannedOrder("ETH", h.eth_plan, "respond")
    /\ UNCHANGED <<sz, now>>

(* lines 308-319: the 200 body; body_fields is the dict of lines 308-317   *)
Respond ==
    /\ h.pc = "respond"
    /\ h' = Return([h EXCEPT !.body_fields =
                      [fee_rate_bps |-> h.maker_bps, fee_rate |-> h.fee_rate,
                       max_buy |-> MAX_BUY, gusd_before |-> h.gusd_before,
                       targets |-> h.targets,
                       planned_caps |-> [btc_cap |-> h.targets.btc, eth_cap |-> h.eth_cap],
                       required_conservative |->
                         [btc |-> h.btc_required, eth |-> h.eth_required,
                          total |-> h.total_required],
                       results |-> h.results]],
                   200, "results")
    /\ UNCHANGED <<sz, cl, now>>

(* before line 225 there is no client yet: cl holds an unused one that     *)
(* GetApiKeys replaces                                                     *)
Init ==
    /\ now \in ClockTimes
    /\ cl = GeminiClient("", "", 0)
    /\ sz = SizingIdle
    /\ h = HandlerStart

Next ==
    \/ GetApiKeys
    \/ FetchFeeTier
    \/ ReadBalance
    \/ AfterPlanBtc
    \/ AfterPlanEth
    \/ PlaceBtc
    \/ PlaceEth
    \/ Respond
    \/ Sizing

Spec == Init /\ [][Next]_vars

-----------------------------------------------------------------------------
(* Properties of lambda_handler *)

(* the requests of one endpoint the client has sent *)
RequestsTo(endpoint) == {i \in 1..Len(cl.log) : cl.log[i].endpoint = endpoint}

(* the orders handed to gemini.place_order for one asset *)
OrdersOf(asset) == {i \in 1..Len(h.orders) : h.orders[i].asset = asset}

(* floor-cost plus ceil-fee of a plan, 0 for a skipped one *)
PlanNeed(asset, plan) ==
    IF plan.kind = "plan"
    THEN FundsNeeded(plan.execution_price, plan.crypto_amount,
                     ASSET_DEFAULTS[asset].tick_size, h.fee_rate)
    ELSE 0

(* floor-cost plus ceil-fee of the orders sent so far *)
RECURSIVE OrdersNeed(_)
OrdersNeed(orders) ==
    IF orders = <<>> THEN 0
    ELSE FundsNeeded(Head(orders).payload.price, Head(orders).payload.amount,
                     ASSET_DEFAULTS[Head(orders).asset].tick_size, h.fee_rate)
           + OrdersNeed(Tail(orders))

(* C5 as claimed: while ETH is being sized, the BTC order has already been *)
(* placed and the balance has been read again after it.                    *)
C5_SizedAfterPlacingAndReread ==
    h.pc = "sizing_eth" =>
      /\ OrdersOf("BTC") /= {}
      /\ Cardinality(RequestsTo("/v1/balances")) >= 2

(* C5 amended: ETH is sized after the BTC plan was computed, before any    *)
(* order is placed and with the balance read only once; its cap is         *)
(* min(ETH_TARGET, MAX_BUY - the BTC plan's floor-cost plus ceil-fee).     *)
C5_EthCapFromPlannedBudget ==
    h.pc = "sizing_eth" =>
      LET remaining == MAX_BUY - PlanNeed("BTC", h.btc_plan)
      IN  /\ h.btc_plan.kind \in {"plan", "skipped"}
          /\ h.orders = <<>>
          /\ Cardinality(RequestsTo("/v1/balances")) = 1
          /\ h.eth_cap <= ETH_TARGET
          /\ h.eth_cap <= remaining
          /\ h.eth_cap = ETH_TARGET \/ h.eth_cap = remaining
          /\ sz.gross_cap_in = h.eth_cap * MillsPerCent

(* ETH in its bump loop after a BTC plan that left a cent of its target *)
C5_Witness ==
    /\ h.pc = "sizing_eth"
    /\ sz.pc = "bump"
    /\ sz.asset = "ETH"
    /\ h.btc_plan.kind = "plan"
    /\ h.btc_required < BTC_TARGET
    /\ h.eth_cap = ETH_TARGET

(* C6: the two plans together never need more than MAX_BUY as floor-cost   *)
(* plus ceil-fee, the handler's total_required is that sum, and the        *)
(* "Internal safety stop" return is never taken.                           *)
C6_TotalWithinMaxBuy ==
    /\ h.body /= "safety_stop"
    /\ PlanNeed("BTC", h.btc_plan) + PlanNeed("ETH", h.eth_plan) <= MAX_BUY
    /\ h.pc \in {"place_btc", "place_eth", "respond"} =>
         h.total_required = PlanNeed("BTC", h.btc_plan) + PlanNeed("ETH", h.eth_plan)

(* both plans made, the check passed with the whole budget planned *)
C6_Witness ==
    /\ h.pc = "place_btc"
    /\ h.btc_plan.kind = "plan"
    /\ h.eth_plan.kind = "plan"
    /\ h.total_required = MAX_BUY

(* C7: the orders sent in a run need, as floor-cost plus ceil-fee, no more *)
(* than the GUSD balance read at the start of the run.                     *)
C7_OrdersWithinBalance ==
    h.orders /= <<>> =>
      /\ OrdersNeed(h.orders) <= h.gusd_before
      /\ \E i \in RequestsTo("/v1/balances") : cl.log[i].ok

(* both orders sent on a balance of just MAX_BUY, which they use up *)
C7_Witness ==
    /\ Len(h.orders) = 2
    /\ h.gusd_before = MAX_BUY
    /\ OrdersNeed(h.orders) = MAX_BUY

BtcOrderFailed == \E i \in OrdersOf("BTC") : ~h.orders[i].ok

(* C8: after a failed BTC order the run goes on: the ETH order is still    *)
(* sent when ETH has a plan, the failure is BTC's error result only, and   *)
(* the run returns 200 with a result for both assets.                      *)
C8_BtcFailureIsolated ==
    BtcOrderFailed =>
      /\ h.pc \in {"place_eth", "respond", "done"}
      /\ h.results.BTC.kind = "error"
      /\ h.pc \in {"respond", "done"} =>
           /\ h.eth_plan.kind = "plan" => OrdersOf("ETH") /= {}
           /\ h.results.ETH.kind \in {"placed", "skipped", "error"}
           /\ h.results.ETH.kind = "error" => \E i \in OrdersOf("ETH") : ~h.orders[i].ok
      /\ h.pc = "done" => h.statusCode = 200 /\ h.body = "results"

(* a finished run whose BTC order failed and whose ETH order was placed *)
C8_Witness ==
    /\ h.pc = "done"
    /\ BtcOrderFailed
    /\ h.results.BTC.kind = "error"
    /\ h.results.ETH.kind = "placed"
    /\ h.statusCode = 200

(* C9 as claimed: a failed ticker request or a failed order is recorded as *)
(* an error result and the run still returns a result for both assets.     *)
C9_ErrorsIsolatedPerAsset ==
    ( /\ h.pc = "done"
      /\ \/ \E i \in 1..Len(cl.log) : cl.log[i].kind = "public" /\ ~cl.log[i].ok
         \/ \E i \in 1..Len(h.orders) : ~h.orders[i].ok )
    => /\ h.statusCode = 200
       /\ h.body = "results"
       /\ \A a \in {"BTC", "ETH"} : h.results[a].kind \in {"placed", "skipped", "error"}
       /\ \E a \in {"BTC", "ETH"} : h.results[a].kind = "error"

Aborted == h.pc = "done" /\ h.statusCode /= 200

-----------------------------------------------------------------------------
(* The configuration specification: lines 14-22 evaluated at import, for   *)
(* every total deposit of a bounded range (in cents) and every whole       *)
(* percentage of a set that includes the deployed 170.00 and 66.           *)

MaxDepositCents == 12

TotalDeposits == 0..MaxDepositCents \cup {TOTAL_DEPOSIT * 100}
Percentages == {0, 1, 33, 34, 50, 66, 67, 99, 100}

ConfigStart(total_deposit, percentage) ==
    [pc |-> "import", total_deposit |-> total_deposit, percentage |-> percentage,
     max_buy |-> 0, btc_target |-> 0, eth_target |-> 0]

(* lines 14-22 *)
Configure ==
    /\ h.pc = "import"
    /\ LET max_buy == max_buy_of(h.total_deposit)
           btc_target == btc_target_of(max_buy, h.percentage)
       IN  h' = [h EXCEPT !.pc = "configured", !.max_buy = max_buy,
                          !.btc_target = btc_target,
                          !.eth_target = eth_target_of(max_buy, btc_target)]
    /\ UNCHANGED <<sz, cl, now>>

InitTargets ==
    /\ \E total_deposit \in TotalDeposits, percentage \in Percentages :
         h = ConfigStart(total_deposit, percentage)
    /\ sz = SizingIdle
    /\ now = 0
    /\ cl = GeminiClient("key", "secret", now)

SpecTargets == InitTargets /\ [][Configure]_vars

(* C11: the two targets sum to exactly the total budget: BTC_TARGET is     *)
(* max_buy * percentage / 100 rounded half-up to cents (the cent amount    *)
(* within half a cent of it, ties upwards), ETH_TARGET is the rest, and a  *)
(* budget of 85.00 at 66% gives 56.10 and 28.90, the deployed targets.     *)
C11_TargetsSumToBudget ==
    /\ BTC_TARGET = 5610 /\ ETH_TARGET = 2890 /\ MAX_BUY = 8500
    /\ h.pc = "configured" =>
         /\ 100 * h.btc_target - 50 <= h.max_buy * h.percentage
         /\ h.max_buy * h.percentage < 100 * h.btc_target + 50
         /\ h.eth_target = h.max_buy - h.btc_target
         /\ h.btc_target + h.eth_target = h.max_buy
         /\ h.btc_target >= 0 /\ h.eth_target >= 0
         /\ 2 * h.max_buy <= h.total_deposit /\ h.total_deposit < 2 * h.max_buy + 2
         /\ (h.max_buy = 8500 /\ h.percentage = 66) =>
              h.btc_target = 5610 /\ h.eth_target = 2890

(* a budget whose share is an exact half cent, rounded upwards, from an    *)
(* odd deposit                                                             *)
C11_Witness ==
    /\ h.pc = "configured"
    /\ (h.max_buy * h.percentage) % 100 = 50
    /\ 100 * h.btc_target = h.max_buy * h.percentage + 50
    /\ h.eth_target > 0
    /\ h.total_deposit % 2 = 1

-----------------------------------------------------------------------------
(* Further properties of plan_order_to_cap, under SpecSizing *)

(* the lower-bound quantity of the call in progress, in ticks *)
LowerBound ==
    lower_bound_quantity(sz.gross_cap, sz.execution_price, sz.tick_size, sz.fee_rate)

Returned == sz.pc = "ret" /\ sz.ret.kind \in {"plan", "skipped"}

(* C13: with a positive cap and a positive price, plan_order_to_cap skips  *)
(* exactly when the lower-bound quantity is below min_quantity, and then   *)
(* with the reason "below min quantity"; so every plan has at least        *)
(* min_quantity, and a cap of 0.50 at price 50000 with a minimum of 0.001  *)
(* is skipped at every tick size and fee rate.                             *)
C13_SkipIffBelowMinimum ==
    /\ (Returned /\ sz.gross_cap > 0 /\ sz.execution_price > 0) =>
         /\ (sz.ret.kind = "skipped") <=> (LowerBound < sz.min_quantity)
         /\ sz.ret.kind = "skipped" =>
              /\ sz.ret.reason = "below min quantity"
              /\ sz.ret.crypto_amount = LowerBound
              /\ sz.ret.order_payload = NoPayload
         /\ sz.ret.kind = "plan" => sz.ret.crypto_amount >= sz.min_quantity
    /\ \A tick_size \in 3..8, fee_rate \in FeeRates :
         below_min_quantity(lower_bound_quantity(50, 5000000, tick_size, fee_rate),
                            Pow10(tick_size - 3))

(* a skip one tick short of the minimum, on a positive cap and price *)
C13_Witness ==
    /\ Returned
    /\ sz.ret.kind = "skipped"
    /\ sz.gross_cap > 0
    /\ sz.execution_price > 0
    /\ sz.min_quantity = MaxMinQuantity
    /\ LowerBound = sz.min_quantity - 1

(* C14: when the cap floored to cents is <= 0, plan_order_to_cap returns a *)
(* skip with the reason "gross_cap <= 0" at once: the ticker was never     *)
(* asked (the client sent nothing) and there is no order payload.          *)
C14_NoCapNoQuote ==
    /\ (sz.pc /= "call" /\ sz.gross_cap <= 0) =>
         /\ sz.pc = "ret"
         /\ sz.ret.kind = "skipped"
         /\ sz.ret.reason = "gross_cap <= 0"
         /\ sz.ret.order_payload = NoPayload
         /\ sz.ret.crypto_amount = 0
         /\ cl.log = <<>>
    /\ (sz.pc = "ret" /\ cl.log = <<>>) => sz.gross_cap <= 0

(* a cap of less than a cent, floored to 0.00 and skipped *)
C14_Witness ==
    /\ Returned
    /\ sz.gross_cap_in > 0
    /\ sz.gross_cap = 0
    /\ sz.ret.reason = "gross_cap <= 0"
    /\ cl.log = <<>>

(* C15: the execution price is ask * slippage_factor rounded down to cents *)
(* (never above ask * slippage_factor, less than a cent below it); it is   *)
(* the price the quantity was sized with and the price of the order        *)
(* payload; an ask of 50000.00 at slippage 0.999 gives 49950.00.           *)
C15_ExecutionPriceRoundedDown ==
    /\ sz.pc \in {"bump", "final"} \/ Returned =>
         \/ sz.gross_cap <= 0
         \/ /\ 1000 * sz.execution_price <= sz.ask * sz.slippage_factor
            /\ sz.ask * sz.slippage_factor < 1000 * (sz.execution_price + 1)
    /\ Planned =>
         /\ sz.ret.execution_price = sz.execution_price
         /\ sz.ret.order_payload.price = sz.execution_price
         /\ sz.ret.order_cost
              = compute_cost_floor(sz.execution_price, sz.ret.crypto_amount, sz.tick_size)
    /\ execution_price_of(5000000, 999) = 4995000

(* a plan priced below an ask whose slipped value was not a whole cent *)
C15_Witness ==
    /\ Planned
    /\ (sz.ask * sz.slippage_factor) % 1000 /= 0
    /\ sz.ret.order_payload.price < sz.ask
    /\ sz.ret.order_payload.price > 1

-----------------------------------------------------------------------------
(* Further properties of lambda_handler, under Spec *)

(* the run returned 200 *)
Finished200 == h.pc = "done" /\ h.statusCode = 200

(* the place_order calls a plan must have led to: one for a plan with a    *)
(* payload, none for a skipped one                                         *)
OrdersDue(plan) == IF plan.kind = "plan" THEN 1 ELSE 0

(* C16: every private call is one HTTP request, never repeated, whether it *)
(* succeeds or fails: one balance request per run, at most one fee-tier    *)
(* request, one order request per place_order call; a plan with a payload  *)
(* leads to exactly one place_order call and a skipped plan to none, so at *)
(* most one order per asset is sent.                                       *)
C16_OneRequestPerCall ==
    /\ Cardinality(RequestsTo("/v1/order/new")) = Len(h.orders)
    /\ Cardinality(RequestsTo("/v1/notionalvolume")) <= 1
    /\ Cardinality(RequestsTo("/v1/balances"))
         = IF h.pc \in {"start", "fee", "balance"} \/ (h.pc = "done" /\ h.at = "start")
           THEN 0 ELSE 1
    /\ \A a \in {"BTC", "ETH"} : Cardinality(OrdersOf(a)) <= 1
    /\ h.pc \in {"place_eth", "respond"} \/ Finished200 =>
         Cardinality(OrdersOf("BTC")) = OrdersDue(h.btc_plan)
    /\ h.pc = "respond" \/ Finished200 =>
         Cardinality(OrdersOf("ETH")) = OrdersDue(h.eth_plan)
    /\ h.pc \notin {"place_eth", "respond", "done"} => h.orders = <<>>

(* a finished run whose BTC order failed and was sent once, ETH skipped *)
C16_Witness ==
    /\ Finished200
    /\ h.btc_plan.kind = "plan"
    /\ BtcOrderFailed
    /\ h.eth_plan.kind = "skipped"
    /\ Cardinality(RequestsTo("/v1/order/new")) = 1
    /\ Cardinality(RequestsTo("/v1/notionalvolume")) = 1

-----------------------------------------------------------------------------
(* Further properties of GeminiClient, under SpecClient *)

(* C17: every private request takes exactly one nonce, the counter's new   *)
(* value, and a public ticker request takes none: after k private requests *)
(* nonce_counter is the construction-time seed plus k, and the i-th nonce  *)
(* sent is seed + i.                                                       *)
C17_CounterIsSeedPlusRequests ==
    LET nonces == NoncesOf(cl.log)
    IN  /\ cl.nonce_counter = cl.seed + Len(nonces)
        /\ \A i \in 1..Len(nonces) : nonces[i] = cl.seed + i
        /\ \A i \in 1..Len(cl.log) : cl.log[i].kind = "public" => cl.log[i].nonce = 0

(* two private requests around a ticker request, the first one failed *)
C17_Witness ==
    /\ Len(cl.log) = 3
    /\ cl.log[1].kind = "private" /\ ~cl.log[1].ok
    /\ cl.log[2].kind = "public"
    /\ cl.log[3].kind = "private"
    /\ cl.nonce_counter = cl.seed + 2
    /\ cl.seed > 0

(* C18 as claimed: a client with an empty public or private key does not   *)
(* come to exist, so none ever issues a nonce or sends a signed request.   *)
C18_EmptyCredentialRejected ==
    (cl.public_key = "" \/ cl.private_key = "") =>
      /\ NoncesOf(cl.log) = <<>>
      /\ cl.nonce_counter = cl.seed

(* C19 as claimed: the error result of a failed order is a structured      *)
(* failure carrying the HTTP status code and the raw body (with the        *)
(* exchange's reason code) of the response to the order request.           *)
C19_FailureKeepsStatusAndBody ==
    \A i \in 1..Len(h.orders) :
      (~h.orders[i].ok /\ h.results[h.orders[i].asset].kind = "error") =>
        LET error == h.results[h.orders[i].asset].error
        IN  /\ error.type \in {"HTTPError", "ExchangeError"}
            /\ error.status_code = Response(FALSE).status_code
            /\ error.text = Response(FALSE).text

(* C20 as claimed: placing a plan leaves it as sizing produced it: the     *)
(* plan in an asset's placed or error result still has the order payload   *)
(* sizing built (symbol, amount, price, side, type, options, nothing else).*)
C20_PlanUnchangedByPlacing ==
    \A a \in {"BTC", "ETH"} :
      h.results[a].kind \in {"placed", "error"} =>
        LET plan == h.results[a].plan
        IN  plan.order_payload
              = OrderPayload(ASSET_DEFAULTS[a].symbol, plan.crypto_amount,
                             plan.execution_price)

(* the fee-tier lookup of this run was answered by the exchange *)
FeeTierFetched ==
    \E i \in RequestsTo("/v1/notionalvolume") : cl.log[i].ok

(* the run has passed the fee-tier step *)
PastFeeTier ==
    h.pc \notin {"start", "fee"} /\ ~(h.pc = "done" /\ h.at = "start")

(* C21: a failed fee-tier lookup does not end the run: the run goes on     *)
(* with the fallback of 20 bps (0.0020), and one fee rate, the run's, is   *)
(* the rate both assets are sized with and both plans' fees are computed   *)
(* from.                                                                   *)
C21_FeeFallbackShared ==
    /\ h.at /= "fee"
    /\ (PastFeeTier /\ ~FeeTierFetched) => h.maker_bps = 20 /\ h.fee_rate = 20
    /\ PastFeeTier => h.fee_rate = h.maker_bps /\ h.fee_rate \in FeeTiers \cup {20}
    /\ sz.pc /= "idle" => sz.fee_rate = h.fee_rate
    /\ \A plan \in {h.btc_plan, h.eth_plan} :
         plan.kind = "plan" =>
           /\ plan.fee_conservative = compute_fee_ceil(plan.order_cost, h.fee_rate)
           /\ plan.order_fee_floor = compute_fee_floor(plan.order_cost, h.fee_rate)

(* a run that returned 200 with both orders placed after the fee-tier      *)
(* request had failed                                                      *)
C21_Witness ==
    /\ Finished200
    /\ \E i \in RequestsTo("/v1/notionalvolume") : ~cl.log[i].ok
    /\ h.results.BTC.kind = "placed"
    /\ h.results.ETH.kind = "placed"
    /\ h.btc_plan.fee_conservative > 0
    /\ h.eth_plan.fee_conservative > 0

-----------------------------------------------------------------------------
(* The split specification: lambda_handler under other settings of         *)
(* BTC_PERCENTAGE (line 17) than the deployed one, among them 100, which   *)
(* leaves ETH no target.                                                   *)

SplitPercentages == {0, BTC_PERCENTAGE, 100}

InitSplit ==
    /\ now \in ClockTimes
    /\ cl = GeminiClient("", "", 0)
    /\ sz = SizingIdle
    /\ \E percentage \in SplitPercentages :
         h = [HandlerStart EXCEPT
                !.targets = [btc |-> btc_target_of(MAX_BUY, percentage),
                             eth |-> eth_target_of(MAX_BUY,
                                                   btc_target_of(MAX_BUY, percentage))]]

SpecSplit == InitSplit /\ [][Next]_vars

(* the BTC plan is back and left ETH no budget *)
EthBudgetExhausted == h.btc_plan.kind \in {"plan", "skipped"} /\ h.eth_cap <= 0

(* the ticker requests sent for one symbol *)
TickersOf(symbol) ==
    {i \in 1..Len(cl.log) : cl.log[i].kind = "public" /\ cl.log[i].endpoint = symbol}

(* C22: when the cap left for ETH is <= 0, ETH is reported as skipped with *)
(* the reason "No remaining budget after BTC conservative hold", is never  *)
(* sized (no ETH quote) and never ordered, while BTC keeps its one plan    *)
(* (one BTC quote) and is ordered at most once.                            *)
C22_ExhaustedBudgetSkipsEth ==
    /\ h.pc = "sizing_eth" => h.eth_cap > 0
    /\ EthBudgetExhausted =>
         /\ h.eth_plan.kind = "skipped"
         /\ h.eth_plan.reason = "No remaining budget after BTC conservative hold"
         /\ h.eth_required = 0
         /\ OrdersOf("ETH") = {}
         /\ TickersOf("ethgusd") = {}
         /\ Cardinality(TickersOf("btcgusd")) = 1
         /\ Cardinality(OrdersOf("BTC")) <= 1
         /\ Cardinality(RequestsTo("/v1/order/new")) = Cardinality(OrdersOf("BTC"))
         /\ h.pc \in {"respond", "done"} =>
              /\ h.results.ETH.kind = "skipped"
              /\ h.results.ETH.plan = h.eth_plan
              /\ Cardinality(OrdersOf("BTC")) = OrdersDue(h.btc_plan)

(* a finished run whose BTC plan took the whole budget and whose BTC order *)
(* failed: ETH skipped, the BTC order sent once                            *)
C22_Witness ==
    /\ Finished200
    /\ EthBudgetExhausted
    /\ h.btc_plan.kind = "plan"
    /\ BtcOrderFailed
    /\ h.results.ETH.kind = "skipped"
    /\ Cardinality(RequestsTo("/v1/order/new")) = 1

-----------------------------------------------------------------------------
(* lambda_handler run to its end: every step of the handler that can be    *)
(* taken is eventually taken (the interpreter keeps executing, and every   *)
(* request to the exchange answers or raises).                             *)

FairSpec == Init /\ [][Next]_vars /\ WF_vars(Next)

(* what a returned run looks like *)
ReturnedWell ==
    /\ h.pc \in {"start", "fee", "balance", "sizing_btc", "sizing_eth", "place_btc",
                 "place_eth", "respond", "done"}
    /\ h.pc = "done" =>
         /\ h.statusCode \in {200, 400, 500}
         /\ h.statusCode = 200 <=> h.body = "results"
         /\ h.statusCode = 400 <=> h.body = "insufficient"
         /\ h.statusCode = 200 =>
              /\ \A a \in {"BTC", "ETH"} :
                   LET result == h.results[a]
                   IN  /\ result.kind \in {"placed", "skipped", "error"}
                       /\ result.kind = "skipped" => result.plan.reason /= ""
                       /\ result.kind = "placed" =>
                            result.plan.kind = "plan" /\ result.error = NoFailure
                       /\ result.kind = "error" => result.error.message /= <<>>
              /\ h.body_fields.results = h.results
              /\ h.body_fields.max_buy = MAX_BUY
              /\ h.body_fields.targets = [btc |-> BTC_TARGET, eth |-> ETH_TARGET]
              /\ h.body_fields.required_conservative.total
                   = h.btc_required + h.eth_required

-----------------------------------------------------------------------------
(* src/recurring-buy-crypto.py: the earlier handler variant.  It shares    *)
(* TOTAL_DEPOSIT, MAX_BUY and BTC_PERCENTAGE (lines 16-22, same values)    *)
(* and GeminiClient; amounts are net of a fixed fee.                       *)

(* line 14: Decimal("0.0001"), in basis points *)
FEE_RATE == 1

total_net_mut_gross(max_buy, fee_rate) == max_buy

(* line 26: (MAX_BUY / (1 + FEE_RATE)).quantize(0.01, ROUND_DOWN) *)
total_net_of(max_buy, fee_rate) == (max_buy * 10000) \div (10000 + fee_rate)

TOTAL_NET == total_net_of(MAX_BUY, FEE_RATE)

(* line 29: (TOTAL_NET * (BTC_PERCENTAGE / 100)).quantize(0.01, ROUND_DOWN) *)
BTC_AMOUNT == (TOTAL_NET * BTC_PERCENTAGE) \div 100

(* line 30 *)
ETH_AMOUNT == TOTAL_NET - BTC_AMOUNT

(* lines 32-47; min_quantity in ticks: 0.0001 = 10000e-8, 0.00001 = 10e-6 *)
BUY_CONFIG ==
    [BTC |-> [amount |-> BTC_AMOUNT, symbol |-> "BTCGUSD", tick_size |-> 8,
              min_quantity |-> 10000, slippage_factor |-> 999],
     ETH |-> [amount |-> ETH_AMOUNT, symbol |-> "ETHGUSD", tick_size |-> 6,
              min_quantity |-> 10, slippage_factor |-> 998]]

(* line 128: (buy_size * (1 + FEE_RATE)).quantize(0.01, ROUND_DOWN) *)
buy_required_funds(buy_size) == (buy_size * (10000 + FEE_RATE)) \div 10000

(* lines 153-157: ((buy_size * (1 - FEE_RATE)) / execution_price)          *)
(* .quantize(10^-tick_size, ROUND_DOWN), in ticks                          *)
buy_crypto_amount(buy_size, execution_price, tick_size) ==
    MulDivFloor(buy_size * (10000 - FEE_RATE), quant_step(tick_size), execution_price)
        \div 10000

(* lines 167-169: order_cost, order_fee (both floored), total_order_cost *)
buy_order(asset, crypto_amount, execution_price, tick_size, ok) ==
    LET order_cost == MulDivFloor(crypto_amount, execution_price, quant_step(tick_size))
        order_fee == (order_cost * FEE_RATE) \div 10000
    IN  [asset |-> asset, amount |-> crypto_amount, price |-> execution_price,
         order_cost |-> order_cost, order_fee |-> order_fee,
         total_order_cost |-> order_cost + order_fee, ok |-> ok]

BuyStart ==
    [pc |-> "start", gusd_balance |-> 0,
     results |-> [BTC |-> "none", ETH |-> "none"], orders |-> <<>>,
     statusCode |-> 0]

(* lines 211-258: keys, client, one balance check against MAX_BUY.  An     *)
(* exception of get_api_keys or of get_balance (a plain Exception, which   *)
(* the HTTPError clause of line 240 does not catch) reaches the outer      *)
(* except of line 278.                                                     *)
BuyCheckBalance ==
    /\ h.pc = "start"
    /\ \E keys_ok \in BOOLEAN, ok \in BOOLEAN, available \in GusdBalances :
         IF ~keys_ok
         THEN /\ h' = [h EXCEPT !.pc = "done", !.statusCode = 500]
              /\ cl' = cl
         ELSE /\ cl' = make_private_request(GeminiClient("key", "secret", now),
                                            "/v1/balances", ok)
              /\ h' = IF ~ok
                      THEN [h EXCEPT !.pc = "done", !.statusCode = 500]
                      ELSE IF available < MAX_BUY * MillsPerCent
                      THEN [h EXCEPT !.pc = "done", !.statusCode = 400,
                                     !.gusd_balance = available]
                      ELSE [h EXCEPT !.pc = "buy_BTC", !.gusd_balance = available]
    /\ UNCHANGED <<sz, now>>

(* lines 90-201: buy_crypto for one asset: balance, funds check, ticker,   *)
(* amount, minimum check, order; every failure is that asset's error       *)
buy_crypto(asset, next) ==
    LET cfg == BUY_CONFIG[asset]
    IN  \E balance_ok \in BOOLEAN, available \in GusdBalances, ticker_ok \in BOOLEAN,
           ask \in TickerAsks(cfg.symbol), ok \in BOOLEAN :
          LET c1 == make_private_request(cl, "/v1/balances", balance_ok)
              c2 == get_ticker(c1, cfg.symbol, ticker_ok)
              c3 == make_private_request(c2, "/v1/order/new", ok)
              execution_price == execution_price_of(ask, cfg.slippage_factor)
              crypto_amount == buy_crypto_amount(cfg.amount, execution_price,
                                                 cfg.tick_size)
              failed == [h EXCEPT !.pc = next, !.results[asset] = "error"]
          IN  IF ~balance_ok \/ available < buy_required_funds(cfg.amount) * MillsPerCent
              THEN h' = failed /\ cl' = c1
              ELSE IF ~ticker_ok \/ crypto_amount < cfg.min_quantity
              THEN h' = failed /\ cl' = c2
              ELSE /\ cl' = c3
                   /\ h' = [h EXCEPT
                              !.pc = next,
                              !.results[asset] = IF ok THEN "placed" ELSE "error",
                              !.orders = Append(@, buy_order(asset, crypto_amount,
                                                             execution_price,
                                                             cfg.tick_size, ok))]

(* lines 262-271, first iteration *)
BuyBtc ==
    /\ h.pc = "buy_BTC"
    /\ buy_crypto("BTC", "buy_ETH")
    /\ UNCHANGED <<sz, now>>

(* lines 262-271, second iteration *)
BuyEth ==
    /\ h.pc = "buy_ETH"
    /\ buy_crypto("ETH", "respond")
    /\ UNCHANGED <<sz, now>>

(* lines 273-276 *)
BuyRespond ==
    /\ h.pc = "respond"
    /\ h' = [h EXCEPT !.pc = "done", !.statusCode = 200]
    /\ UNCHANGED <<sz, cl, now>>

InitBuy ==
    /\ now \in ClockTimes
    /\ cl = GeminiClient("", "", 0)
    /\ sz = SizingIdle
    /\ h = BuyStart

NextBuy == BuyCheckBalance \/ BuyBtc \/ BuyEth \/ BuyRespond

SpecBuy == InitBuy /\ [][NextBuy]_vars

(* the sum of total_order_cost over the orders sent *)
RECURSIVE TotalOrderCost(_)
TotalOrderCost(orders) ==
    IF orders = <<>> THEN 0
    ELSE Head(orders).total_order_cost + TotalOrderCost(Tail(orders))

(* C24: in the earlier variant one run spends at most MAX_BUY, whatever    *)
(* the asks: the orders sent (at most one per asset) have floor-cost plus  *)
(* floor-fee summing to no more than MAX_BUY, each within its asset's net  *)
(* amount; BTC_AMOUNT + ETH_AMOUNT = TOTAL_NET and                         *)
(* TOTAL_NET * (1 + FEE_RATE) <= MAX_BUY.                                  *)
C24_EarlierVariantWithinMaxBuy ==
    /\ BTC_AMOUNT + ETH_AMOUNT = TOTAL_NET
    /\ TOTAL_NET * (10000 + FEE_RATE) <= MAX_BUY * 10000
    /\ TotalOrderCost(h.orders) <= MAX_BUY
    /\ Len(h.orders) <= 2
    /\ \A i \in 1..Len(h.orders) :
         LET o == h.orders[i]
             cost == compute_cost_floor(o.price, o.amount, BUY_CONFIG[o.asset].tick_size)
         IN  /\ o.total_order_cost = cost + compute_fee_floor(cost, FEE_RATE)
             /\ o.total_order_cost <= BUY_CONFIG[o.asset].amount
             /\ \A j \in 1..Len(h.orders) : i /= j => h.orders[j].asset /= o.asset
    /\ Cardinality(RequestsTo("/v1/order/new")) = Len(h.orders)

(* both orders placed, together within three cents of MAX_BUY *)
C24_Witness ==
    /\ h.pc = "done"
    /\ Len(h.orders) = 2
    /\ TotalOrderCost(h.orders) >= MAX_BUY - 3
    /\ \A i \in 1..2 : h.orders[i].ok
    /\ h.statusCode = 200

-----------------------------------------------------------------------------
(* Reachability and termination in plan_order_to_cap, under SpecSizing *)

(* C25: the skip "cannot fit within cap under conservative hold" is never  *)
(* returned: once the lower-bound quantity has passed the minimum check,   *)
(* it needs no more than the cap as floor-cost plus ceil-fee, and so does  *)
(* the quantity at every step of the bump loop and after it.               *)
C25_DefensiveSkipUnreachable ==
    /\ sz.ret.reason /= "cannot fit within cap under conservative hold"
    /\ sz.pc \in {"bump", "final"} =>
         /\ sz.gross_cap > 0 /\ sz.execution_price > 0 /\ sz.fee_rate >= 0
         /\ LowerBound >= sz.min_quantity
         /\ FundsNeeded(sz.execution_price, LowerBound, sz.tick_size, sz.fee_rate)
              <= sz.gross_cap
         /\ FundsNeeded(sz.execution_price, sz.crypto_amount, sz.tick_size, sz.fee_rate)
              <= sz.gross_cap
    /\ (Returned /\ sz.crypto_amount > 0) => sz.ret.kind = "plan" \/ LowerBound < sz.min_quantity

(* the loop is left with a lower bound that already needs the whole cap,   *)
(* fee rounded up included                                                 *)
C25_Witness ==
    /\ sz.pc = "final"
    /\ sz.crypto_amount = LowerBound
    /\ sz.fee_rate > 0
    /\ FundsNeeded(sz.execution_price, LowerBound, sz.tick_size, sz.fee_rate)
         = sz.gross_cap
    /\ compute_fee_ceil(compute_cost_floor(sz.execution_price, LowerBound, sz.tick_size),
                        sz.fee_rate)
         > compute_fee_floor(compute_cost_floor(sz.execution_price, LowerBound,
                                                sz.tick_size), sz.fee_rate)

(* C26: the bump loop terminates: every call that reaches the loop (cap >  *)
(* 0, execution price of a cent or more, fee rate >= 0, any tick size)     *)
(* leaves it after finitely many one-tick increments, when the conservative*)
(* required funds of the next candidate exceed the cap.                    *)
C26_BumpLoopTerminates ==
    (sz.pc = "bump" /\ sz.gross_cap > 0 /\ sz.execution_price >= 1
        /\ sz.fee_rate >= 0)
      ~> (sz.pc = "final"
            /\ required_funds_conservative(sz.execution_price, sz.crypto_amount + 1,
                                           sz.tick_size, sz.fee_rate) > sz.gross_cap)

(* the loop was left after several increments *)
C26_Witness ==
    /\ sz.pc = "final"
    /\ sz.crypto_amount >= LowerBound + 2
    /\ sz.tick_size > 0

-----------------------------------------------------------------------------
(* Ordering within one run of lambda_handler, under Spec *)

(* both sizing calls have returned a plan or a skip *)
PlansComputed == h.btc_plan.kind \in {"plan", "skipped"} /\ h.eth_plan.kind \in {"plan", "skipped"}

(* C27: no place_order call occurs before the balance guard has passed,    *)
(* both plans have been computed and the total-required check has passed;  *)
(* when both orders are sent, the BTC order is sent before the ETH order.  *)
C27_GuardsBeforeOrders ==
    /\ h.pc \in {"start", "fee", "balance", "sizing_btc", "sizing_eth", "place_btc"} =>
         h.orders = <<>> /\ RequestsTo("/v1/order/new") = {}
    /\ h.orders /= <<>> =>
         /\ ~insufficient_gusd(h.gusd_before)
         /\ RequestsTo("/v1/balances") /= {}
         /\ PlansComputed
         /\ h.total_required = h.btc_required + h.eth_required
         /\ h.btc_required = required_of([h.btc_plan EXCEPT !.order_payload = NoPayload])
         /\ h.eth_required = required_of([h.eth_plan EXCEPT !.order_payload = NoPayload])
         /\ h.total_required <= MAX_BUY
         /\ \A i \in RequestsTo("/v1/order/new"), j \in RequestsTo("/v1/balances") : j < i
    /\ \A i, j \in 1..Len(h.orders) :
         i < j => /\ h.orders[i].asset = "BTC" /\ h.orders[j].asset = "ETH"
                  /\ h.orders[i].payload.nonce < h.orders[j].payload.nonce
    /\ OrdersOf("ETH") /= {} => h.results.BTC.kind /= "none"

(* both orders were sent *)
C27_Witness ==
    /\ Len(h.orders) = 2
    /\ h.orders[1].asset = "BTC" /\ h.orders[2].asset = "ETH"
    /\ h.pc = "done"

-----------------------------------------------------------------------------
(* src/shared/gemini_client.py: two GeminiClient instances built from the  *)
(* same credentials, one after the other (one per invocation of the        *)
(* function).  cl is the instance in use, h keeps the first instance once  *)
(* the second is built, now is the wall clock in milliseconds.             *)

(* wall-clock times of the constructions, in milliseconds *)
ConstructionTimes == {0, 1, 2, 3, 1000}

InstancesStart == [pc |-> "first", first |-> GeminiClient("key", "secret", 0)]

(* a private call on the instance in use: get_nonce, then one request *)
InstanceCall ==
    /\ Len(cl.log) < MaxRequests
    /\ \E ok \in BOOLEAN : cl' = make_private_request(cl, "/v1/balances", ok)
    /\ UNCHANGED <<sz, h, now>>

(* time.time() as line 14 will read it: any later or earlier time *)
InstanceClockMoves ==
    /\ \E t \in ConstructionTimes \ {now} : now' = t
    /\ UNCHANGED <<sz, h, cl>>

(* lines 10-14: the second GeminiClient(public_key, private_key) *)
SecondClient ==
    /\ h.pc = "first"
    /\ h' = [pc |-> "second", first |-> cl]
    /\ cl' = GeminiClient(cl.public_key, cl.private_key, now)
    /\ UNCHANGED <<sz, now>>

InitInstances ==
    /\ now \in ConstructionTimes
    /\ cl = GeminiClient("key", "secret", now)
    /\ h = InstancesStart
    /\ sz = SizingIdle

NextInstances == InstanceCall \/ InstanceClockMoves \/ SecondClient

SpecInstances == InitInstances /\ [][NextInstances]_vars

(* the nonces a client has issued, as a set *)
IssuedBy(c) == {NoncesOf(c.log)[i] : i \in 1..Len(NoncesOf(c.log))}

(* C28: nonces are never reused across client instances that share         *)
(* credentials: when the second client is constructed after the first has  *)
(* issued k nonces and the clock did not move backwards between the two    *)
(* constructions, every nonce of the second client is strictly greater     *)
(* than every nonce of the first.                                          *)
C28_NoReuseAcrossInstances ==
    (h.pc = "second" /\ h.first.seed <= cl.seed
       /\ h.first.public_key = cl.public_key /\ h.first.private_key = cl.private_key) =>
      \A n1 \in IssuedBy(h.first), n2 \in IssuedBy(cl) : n1 < n2

-----------------------------------------------------------------------------
(* Quotes and sizing decisions, under Spec *)

(* the execution prices an ask of this asset's own ticker can lead to *)
OwnPrices(asset) ==
    {execution_price_of(ask, ASSET_DEFAULTS[asset].slippage_factor) :
       ask \in TickerAsks(ASSET_DEFAULTS[asset].symbol)}

(* the plan of an asset was sized with a quote *)
Quoted(plan) == plan.kind = "plan" \/ (plan.kind = "skipped" /\ plan.execution_price > 0)

(* C29: a quote is never reused across sizing decisions: every call of     *)
(* plan_order_to_cap with cap > 0 fetches the ticker of its own symbol     *)
(* exactly once, and the price that sizes an asset comes from that fetch,  *)
(* never from the ticker of the other asset or from an earlier call.       *)
C29_FreshQuotePerSizing ==
    /\ (sz.pc \in {"bump", "final", "ret"} /\ sz.gross_cap > 0) =>
         /\ Cardinality(TickersOf(sz.symbol)) = 1
         /\ cl.log[Len(cl.log)] = Request("public", sz.symbol, 0, 0, sz.ret.kind /= "raise")
         /\ sz.ret.kind /= "raise" =>
              /\ sz.ask \in TickerAsks(sz.symbol)
              /\ sz.execution_price = execution_price_of(sz.ask, sz.slippage_factor)
    /\ sz.pc \in {"call", "quote"} => TickersOf(sz.symbol) = {}
    /\ \A asset \in {"BTC", "ETH"} :
         LET plan == IF asset = "BTC" THEN h.btc_plan ELSE h.eth_plan
         IN  /\ Quoted(plan) =>
                  /\ Cardinality(TickersOf(ASSET_DEFAULTS[asset].symbol)) = 1
                  /\ plan.execution_price \in OwnPrices(asset)
             /\ Cardinality(TickersOf(ASSET_DEFAULTS[asset].symbol)) <= 1
    /\ (Quoted(h.btc_plan) /\ Quoted(h.eth_plan)) =>
         /\ h.eth_plan.execution_price \notin OwnPrices("BTC")
         /\ h.btc_plan.execution_price \notin OwnPrices("ETH")
         /\ \A i \in TickersOf(ASSET_DEFAULTS["BTC"].symbol),
               j \in TickersOf(ASSET_DEFAULTS["ETH"].symbol) : i < j

(* a run that sized and ordered both assets, each with its own quote *)
C29_Witness ==
    /\ h.pc = "done"
    /\ h.btc_plan.kind = "plan" /\ h.eth_plan.kind = "plan"
    /\ Cardinality(TickersOf(ASSET_DEFAULTS["BTC"].symbol)) = 1
    /\ Cardinality(TickersOf(ASSET_DEFAULTS["ETH"].symbol)) = 1
    /\ h.btc_plan.execution_price \in OwnPrices("BTC")
    /\ h.eth_plan.execution_price \in OwnPrices("ETH")

====
